---------------------------- MODULE Spec2Model ----------------------------
(***************************************************************************)
(* A model of deepdiff's DeepHash (src/deepdiff/deephash.py): the          *)
(* recursive traversal _hash with its handlers, the Filter _skip_this,     *)
(* the Registry self.hashes, and the query API (__getitem__, get,          *)
(* __contains__).                                                          *)
(*                                                                         *)
(* Python strings are sequences of one-character strings, compared by      *)
(* code point as Python compares them.  Python objects with identity       *)
(* (lists, tuples, dicts, instances) live in a heap of cells and are       *)
(* referred to by Ref values, so that aliasing and cycles can be built.    *)
(***************************************************************************)
EXTENDS Integers, Sequences, FiniteSets, TLC

(***************************************************************************)
(* Characters and strings                                                  *)
(***************************************************************************)

\* The characters used by the model, in increasing code-point order.
Alphabet ==
  << " ", "'", ",", ".", "0", "1", "2", "3", "4", "5", "6", "7", "8", "9",
     ":", ";", "<", ">",
     "A", "B", "C", "D", "E", "F", "G", "H", "I", "J", "K", "L", "M", "N",
     "O", "P", "Q", "R", "S", "T", "U", "V", "W", "X", "Y", "Z",
     "[", "]", "_",
     "a", "b", "c", "d", "e", "f", "g", "h", "i", "j", "k", "l", "m", "n",
     "o", "p", "q", "r", "s", "t", "u", "v", "w", "x", "y", "z",
     "{", "|", "}" >>

Chars == { Alphabet[i] : i \in 1..Len(Alphabet) }

\* ord(c), up to an order-preserving renumbering.
Code == [ c \in Chars |-> CHOOSE i \in 1..Len(Alphabet) : Alphabet[i] = c ]

\* str.lower() on one character: an upper-case letter is 29 places before
\* its lower-case letter in Alphabet.
LowerChar(c) == IF Code[c] \in Code["A"]..Code["Z"] THEN Alphabet[Code[c] + 29] ELSE c

Lower(s) == [ i \in 1..Len(s) |-> LowerChar(s[i]) ]

\* Python's s < t on strings: lexicographic by code point.
StrLess(s, t) ==
  LET n == IF Len(s) < Len(t) THEN Len(s) ELSE Len(t)
      d == { i \in 1..n : s[i] # t[i] }
  IN  IF d = {} THEN Len(s) < Len(t)
      ELSE LET i == CHOOSE j \in d : \A k \in d : j <= k
           IN  Code[s[i]] < Code[t[i]]

\* s.startswith(p)
StartsWith(s, p) == Len(p) <= Len(s) /\ SubSeq(s, 1, Len(p)) = p

\* pattern.search(s) for a pattern without metacharacters: substring search.
Search(p, s) ==
  \E i \in 1..(Len(s) + 1) :
     i + Len(p) - 1 <= Len(s) /\ SubSeq(s, i, i + Len(p) - 1) = p

\* list.sort() / sorted() on a list of strings (insertion sort, stable).
RECURSIVE Insert(_, _)
Insert(x, l) ==
  IF l = <<>> THEN <<x>>
  ELSE IF StrLess(x, Head(l)) THEN <<x>> \o l
  ELSE <<Head(l)>> \o Insert(x, Tail(l))

RECURSIVE Sorted(_)
Sorted(l) == IF l = <<>> THEN <<>> ELSE Insert(l[Len(l)], Sorted(SubSeq(l, 1, Len(l) - 1)))

\* sep.join(l)
RECURSIVE Join(_, _)
Join(sep, l) ==
  IF l = <<>> THEN <<>>
  ELSE IF Len(l) = 1 THEN l[1]
  ELSE l[1] \o sep \o Join(sep, Tail(l))

\* str(n) for a natural number.
RECURSIVE IntStr(_)
IntStr(n) == IF n < 10 THEN <<ToString(n)>> ELSE IntStr(n \div 10) \o <<ToString(n % 10)>>

(***************************************************************************)
(* Values                                                                  *)
(***************************************************************************)

\* A value is a record [kind, num, str]: kind is the Python type name of a
\* scalar, or "ref" for a reference to the heap cell numbered num.
NoneV == [kind |-> "NoneType", num |-> 0, str |-> <<>>]
BoolV(b) == [kind |-> "bool", num |-> (IF b THEN 1 ELSE 0), str |-> <<>>]
IntV(n) == [kind |-> "int", num |-> n, str |-> <<>>]
\* the float n.0
FloatV(n) == [kind |-> "float", num |-> n, str |-> <<>>]
StrV(s) == [kind |-> "str", num |-> 0, str |-> s]
BytesV(s) == [kind |-> "bytes", num |-> 0, str |-> s]
Ref(i) == [kind |-> "ref", num |-> i, str |-> <<>>]

\* class BoolObj(Enum): TRUE = 1, FALSE = 0
BoolObj == [TRUE_ |-> [kind |-> "BoolObj", num |-> 1, str |-> <<>>],
            FALSE_ |-> [kind |-> "BoolObj", num |-> 0, str |-> <<>>]]

\* A heap cell is [type, keys, items]: type is the Python type name; a
\* "dict" (or an instance with attributes, "Obj") has parallel keys and
\* items in insertion order; a "list" or "tuple" has items only; an
\* "Opaque" is an instance from which no attribute mapping can be read.
Cell(t, ks, is) == [type |-> t, keys |-> ks, items |-> is]

\* type(obj).__name__ as a model string.
TypeOf(hp, v) == IF v.kind = "ref" THEN hp[v.num].type ELSE v.kind

\* The characters of a type name.
NameChars(t) ==
  CASE t = "NoneType" -> <<"N","o","n","e","T","y","p","e">>
    [] t = "bool" -> <<"b","o","o","l">>
    [] t = "int" -> <<"i","n","t">>
    [] t = "float" -> <<"f","l","o","a","t">>
    [] t = "str" -> <<"s","t","r">>
    [] t = "bytes" -> <<"b","y","t","e","s">>
    [] t = "list" -> <<"l","i","s","t">>
    [] t = "tuple" -> <<"t","u","p","l","e">>
    [] t = "dict" -> <<"d","i","c","t">>
    [] t = "Obj" -> <<"O","b","j">>
    [] t = "Opaque" -> <<"O","p","a","q","u","e">>
    [] t = "BoolObj" -> <<"B","o","o","l","O","b","j">>
    [] t = "number" -> <<"n","u","m","b","e","r">>

\* strings = (str, bytes); numbers = (int, float, ...)  [deepdiff.helper]
strings == {"str", "bytes"}
numbers == {"int", "float"}

\* isinstance(obj, T) for a type name T; bool is a subclass of int.
IsInstance(hp, v, T) == TypeOf(hp, v) = T \/ (v.kind = "bool" /\ T = "int")

\* str(obj) of a scalar, as "%s" and "{}" render it.
PyStr(v) ==
  CASE v.kind = "NoneType" -> <<"N","o","n","e">>
    [] v.kind = "bool" -> (IF v.num = 1 THEN <<"T","r","u","e">> ELSE <<"F","a","l","s","e">>)
    [] v.kind = "int" -> IntStr(v.num)
    [] v.kind = "float" -> IntStr(v.num) \o <<".", "0">>
    [] v.kind = "str" -> v.str
    [] v.kind = "bytes" -> <<"b", "'">> \o v.str \o <<"'">>
    [] v.kind = "BoolObj" -> (IF v.num = 1 THEN <<"B","o","o","l","O","b","j",".","T","R","U","E">>
                              ELSE <<"B","o","o","l","O","b","j",".","F","A","L","S","E">>)
    \* object.__repr__ of an instance: "<Obj at N>"
    [] v.kind = "ref" -> <<"<","O","b","j"," ","a","t"," ">> \o IntStr(v.num) \o <<">">>

\* get_id(obj): a key made from the identity of obj.  Scalars have an
\* identity of their own, distinct from every cell's.
get_id(v) == <<"id", v.kind, ToString(v.num)>> \o v.str

\* hash(obj) does not raise TypeError: lists and dicts are unhashable, a
\* tuple is hashable when all its items are, instances hash by identity.
RECURSIVE Hashable(_, _)
Hashable(hp, v) ==
  IF v.kind # "ref" THEN TRUE
  ELSE LET c == hp[v.num]
       IN  CASE c.type \in {"list", "dict"} -> FALSE
             [] c.type = "tuple" -> \A i \in 1..Len(c.items) : Hashable(hp, c.items[i])
             [] OTHER -> TRUE

\* The dict key a hashable value is: two values have the same key exactly
\* when Python finds them equal with equal hash (1 == 1.0 == True, and
\* tuples compare by content); instances compare by identity.
RECURSIVE ValueKey(_, _)
ValueKey(hp, v) ==
  CASE v.kind = "NoneType" -> <<"None">>
    [] v.kind \in {"bool", "int", "float"} -> <<"num", ToString(v.num)>>
    [] v.kind = "BoolObj" -> <<"BoolObj", ToString(v.num)>>
    [] v.kind \in {"str", "bytes"} -> <<v.kind>> \o v.str \o <<"end">>
    [] v.kind = "ref" ->
         LET c == hp[v.num]
             RECURSIVE items(_)
             items(i) == IF i > Len(c.items) THEN <<>>
                         ELSE ValueKey(hp, c.items[i]) \o items(i + 1)
         IN  IF c.type = "tuple" THEN <<"tuple(">> \o items(1) \o <<")">>
             ELSE <<"instance", ToString(v.num)>>

\* UNPROCESSED_KEY = object()
UNPROCESSED_KEY == <<"UNPROCESSED_KEY">>

\* The sentinels unprocessed and not_hashed of deepdiff.helper, and None as
\* a hash result; each is a one-token string no Python string equals.
unprocessed == <<"Error: Unprocessed">>
not_hashed == <<"Error: NotHashed">>
NoneResult == <<"None">>

\* str(x) of a hash result, as str.format and map(str, ...) render it.
ResultStr(r) ==
  CASE r = unprocessed -> <<"E","r","r","o","r",":"," ","U","n","p","r","o","c","e","s","s","e","d">>
    [] r = NoneResult -> <<"N","o","n","e">>
    [] OTHER -> r

\* KEY_TO_VAL_STR = "{}:{}"
KEY_TO_VAL_STR(a, b) == a \o <<":">> \o b

(***************************************************************************)
(* Configuration                                                           *)
(***************************************************************************)

\* The keyword defaults of DeepHash.__init__.  An unset set-valued option
\* (None) is the empty set, significant_digits=None is -1, and
\* exclude_obj_callback=None is "None".
DefaultConfig ==
  [ exclude_types |-> {}, exclude_paths |-> {}, include_paths |-> {},
    exclude_regex_paths |-> {}, ignore_repetition |-> TRUE,
    significant_digits |-> -1, apply_hash |-> TRUE,
    ignore_string_type_changes |-> FALSE,
    ignore_numeric_type_changes |-> FALSE, ignore_string_case |-> FALSE,
    exclude_obj_callback |-> "None", ignore_private_variables |-> TRUE,
    ignore_list_order |-> TRUE ]

\* The deepest chain of nested _hash calls the interpreter allows before it
\* raises RecursionError.
RecursionLimit == 5

\* Base.get_significant_digits: the configured count.
get_significant_digits(significant_digits, ignore_numeric_type_changes) == significant_digits

\* number_to_string(number, significant_digits, "f") on a whole number:
\* fixed notation with that many decimals.
number_to_string(v, significant_digits) ==
  IF significant_digits = 0 THEN IntStr(v.num)
  ELSE IntStr(v.num) \o <<".">> \o [ i \in 1..significant_digits |-> "0" ]

\* The callbacks a caller may pass as exclude_obj_callback(obj, path).
exclude_obj_callback(name, hp, obj, parent) ==
  CASE name = "is_none" -> obj.kind = "NoneType"
    [] name = "under_index_0" -> Search(<<"[", "0", "]">>, parent)
    [] OTHER -> FALSE

(***************************************************************************)
(* Canonicalizer                                                           *)
(***************************************************************************)

\* sha256hex, as an injective function whose values contain no "," ";" ":"
\* or "|" outside the brackets, so that joined digests parse uniquely.
sha256hex(s) == <<"<">> \o s \o <<">">>

\* prepare_string_for_hashing(obj, ...) for a str or (decodable) bytes
\* value whose characters are chars and whose type name is original_type.
prepare_string_for_hashing(chars, original_type, ignore_string_type_changes, ignore_string_case) ==
  LET tagged == IF ~ignore_string_type_changes
                THEN KEY_TO_VAL_STR(NameChars(original_type), chars)
                ELSE chars
  IN  IF ignore_string_case THEN Lower(tagged) ELSE tagged

_prep_bool(obj) == IF obj.num = 1 THEN BoolObj.TRUE_ ELSE BoolObj.FALSE_

_prep_number(cfg, obj) ==
  LET type_ == IF cfg.ignore_numeric_type_changes THEN "number" ELSE obj.kind
      sd == get_significant_digits(cfg.significant_digits, cfg.ignore_numeric_type_changes)
      text == IF sd # -1 THEN number_to_string(obj, sd) ELSE PyStr(obj)
  IN  KEY_TO_VAL_STR(NameChars(type_), text)

(***************************************************************************)
(* Filter                                                                  *)
(***************************************************************************)

\* A filter that does not consult exclude_paths.
_skip_this_without_exclude_paths(hp, cfg, obj, parent) ==
  IF cfg.include_paths # {} /\ parent # <<"r","o","o","t">>
  THEN parent \notin cfg.include_paths
       /\ ~(\E prefix \in cfg.include_paths : StartsWith(parent, prefix))
  ELSE \/ cfg.exclude_regex_paths # {} /\ \E r \in cfg.exclude_regex_paths : Search(r, parent)
       \/ cfg.exclude_types # {} /\ \E T \in cfg.exclude_types : IsInstance(hp, obj, T)
       \/ cfg.exclude_obj_callback # "None"
          /\ exclude_obj_callback(cfg.exclude_obj_callback, hp, obj, parent)

\* A filter that goes on to the regex, type and callback rules after the
\* include_paths rule.
_skip_this_then_other_rules(hp, cfg, obj, parent) ==
  \/ IF cfg.include_paths # {} /\ parent # <<"r","o","o","t">> /\ parent \notin cfg.include_paths
     THEN ~(\E prefix \in cfg.include_paths : StartsWith(parent, prefix))
     ELSE cfg.exclude_paths # {} /\ parent \in cfg.exclude_paths
  \/ cfg.exclude_regex_paths # {} /\ \E r \in cfg.exclude_regex_paths : Search(r, parent)
  \/ cfg.exclude_types # {} /\ \E T \in cfg.exclude_types : IsInstance(hp, obj, T)
  \/ cfg.exclude_obj_callback # "None"
     /\ exclude_obj_callback(cfg.exclude_obj_callback, hp, obj, parent)

_skip_this(hp, cfg, obj, parent) ==
  LET skip1 == cfg.exclude_paths # {} /\ parent \in cfg.exclude_paths
  IN  IF cfg.include_paths # {} /\ parent # <<"r","o","o","t">>
      THEN IF parent \notin cfg.include_paths
           THEN ~(\E prefix \in cfg.include_paths : StartsWith(parent, prefix))
           ELSE skip1
      ELSE IF cfg.exclude_regex_paths # {}
              /\ \E r \in cfg.exclude_regex_paths : Search(r, parent)
      THEN TRUE
      ELSE IF cfg.exclude_types # {} /\ \E T \in cfg.exclude_types : IsInstance(hp, obj, T)
      THEN TRUE
      ELSE IF cfg.exclude_obj_callback # "None"
              /\ exclude_obj_callback(cfg.exclude_obj_callback, hp, obj, parent)
      THEN TRUE
      ELSE skip1

\* The rules after the path rules that a call _skip_this(obj, parent)
\* evaluates: Python's and/elif evaluates a rule only when the options
\* before it are unset or did not match.
_skip_this_evaluates(hp, cfg, obj, parent) ==
  IF cfg.include_paths # {} /\ parent # <<"r","o","o","t">> THEN {}
  ELSE IF cfg.exclude_regex_paths # {} /\ \E r \in cfg.exclude_regex_paths : Search(r, parent)
  THEN {"exclude_regex_paths"}
  ELSE IF cfg.exclude_types # {} /\ \E T \in cfg.exclude_types : IsInstance(hp, obj, T)
  THEN (IF cfg.exclude_regex_paths # {} THEN {"exclude_regex_paths"} ELSE {})
       \cup {"exclude_types"}
  ELSE (IF cfg.exclude_regex_paths # {} THEN {"exclude_regex_paths"} ELSE {})
       \cup (IF cfg.exclude_types # {} THEN {"exclude_types"} ELSE {})
       \cup (IF cfg.exclude_obj_callback # "None" THEN {"exclude_obj_callback"} ELSE {})

(***************************************************************************)
(* Traversal                                                               *)
(*                                                                         *)
(* The handlers are operators on the engine state st = [hashes, log,       *)
(* error] threaded through the recursion: hashes is self.hashes, error is  *)
(* the exception being raised ("" when none), and log is a history of the  *)
(* traversal kept for stating properties (it does not influence it).       *)
(* Each returns [result, counts, st].                                      *)
(***************************************************************************)

R(result, counts, st) == [result |-> result, counts |-> counts, st |-> st]

Logged(st, ev, obj, anc) ==
  [st EXCEPT !.log = Append(@, [ev |-> ev, obj |-> obj, anc |-> anc])]

\* d[k] = v on a dict d
SetItem(d, k, v) == [ x \in DOMAIN d \cup {k} |-> IF x = k THEN v ELSE d[x] ]

\* del d[k]
DelItem(d, k) == [ x \in DOMAIN d \ {k} |-> d[x] ]

\* result[hashed] += 1 on a defaultdict(int) kept as a sequence of
\* <<key, count>> in insertion order
Increment(result, hashed) ==
  IF \E j \in 1..Len(result) : result[j][1] = hashed
  THEN [ j \in 1..Len(result) |->
           IF result[j][1] = hashed THEN <<hashed, result[j][2] + 1>> ELSE result[j] ]
  ELSE Append(result, <<hashed, 1>>)

\* A cycle check that never finds the item among its ancestors.
in_parents_ids_never(parents_ids, item_id) == FALSE

\* "parents_ids and item_id in parents_ids": the item is one of its own
\* ancestors.
in_parents_ids(parents_ids, item_id) == parents_ids # {} /\ item_id \in parents_ids

\* An undecomposable value that is not recorded.
append_unprocessed_dropped(hashes, obj) == hashes

\* self.hashes[UNPROCESSED_KEY].append(obj)
append_unprocessed(hashes, obj) ==
  SetItem(hashes, UNPROCESSED_KEY, Append(hashes[UNPROCESSED_KEY], obj))

RECURSIVE _hash(_, _, _, _, _, _, _)

\* The attribute mapping of an instance: the first strategy of
\* obj_to_dict_strategies that does not raise AttributeError, as a cell of
\* type dict; "AttributeError" when every strategy raises.
obj_to_dict(hp, obj, is_namedtuple) ==
  LET c == hp[obj.num]
      strategies == <<IF is_namedtuple THEN "_asdict" ELSE "__dict__", "__slots__">>
      works(strategy) == (strategy = "_asdict" /\ c.type = "namedtuple")
                         \/ (strategy = "__dict__" /\ c.type = "Obj")
      ok == { i \in 1..Len(strategies) : works(strategies[i]) }
  IN  IF ok = {} THEN "AttributeError" ELSE "dict"

\* key_in_report = key_text % (parent, key_formatted)
key_in_report(parent, key, print_as_attribute) ==
  IF print_as_attribute THEN parent \o <<".">> \o PyStr(key)
  ELSE IF key.kind \in strings THEN parent \o <<"[", "'">> \o PyStr(key) \o <<"'", "]">>
  ELSE parent \o <<"[">> \o PyStr(key) \o <<"]">>

\* _prep_dict, the end of one pass of its loop: the entry whose key hashed
\* as k and whose item hashed as h is appended; acc is [result, counts, st]
\* before the entry.
_prep_dict_append(acc, k, h) ==
  R(Append(acc.result, KEY_TO_VAL_STR(ResultStr(k.result), ResultStr(h.result))),
    acc.counts + 1 + h.counts, h.st)

\* _prep_dict, one pass of its loop from the point where the key has been
\* hashed as k.
_prep_dict_item(hp, cfg, acc, item, parent, parents_ids, depth, k) ==
  IF k.result = NoneResult \/ k.result = <<>>
  THEN R(acc.result, acc.counts + 1, k.st)
  ELSE IF in_parents_ids(parents_ids, get_id(item))
  THEN R(acc.result, acc.counts + 1, Logged(k.st, "cycle", item, parents_ids))
  ELSE IF _skip_this(hp, cfg, item, parent)
  THEN R(acc.result, acc.counts + 1, k.st)
  ELSE _prep_dict_append(acc, k,
         _hash(hp, cfg, Logged(k.st, "descend", item, parents_ids), item, parent,
               parents_ids \cup {get_id(item)}, depth + 1))

\* _prep_dict, one pass of its loop, for the entry (key, item).
_prep_dict_entry(hp, cfg, acc, key, item, parent, parents_ids, print_as_attribute, depth) ==
  IF cfg.ignore_private_variables /\ key.kind = "str" /\ StartsWith(key.str, <<"_", "_">>)
  THEN R(acc.result, acc.counts + 1, acc.st)
  ELSE _prep_dict_item(hp, cfg, acc, item,
         key_in_report(parent, key, print_as_attribute), parents_ids, depth,
         _hash(hp, cfg, acc.st, key, key_in_report(parent, key, print_as_attribute),
               parents_ids, depth + 1))

\* _prep_dict, its loop from entry i on; an exception ends it.
RECURSIVE _prep_dict_loop(_, _, _, _, _, _, _, _, _)
_prep_dict_loop(hp, cfg, obj, parent, parents_ids, print_as_attribute, depth, i, acc) ==
  IF i > Len(hp[obj.num].keys) \/ acc.st.error # "" THEN acc
  ELSE _prep_dict_loop(hp, cfg, obj, parent, parents_ids, print_as_attribute, depth, i + 1,
         _prep_dict_entry(hp, cfg, acc, hp[obj.num].keys[i], hp[obj.num].items[i],
                          parent, parents_ids, print_as_attribute, depth))

\* _prep_dict, after its loop ended as l.
_prep_dict_result(type_str, l) ==
  R(type_str \o <<":", "{">> \o Join(<<";">>, Sorted(l.result)) \o <<"}">>, l.counts, l.st)

_prep_dict(hp, cfg, st, obj, parent, parents_ids, print_as_attribute, original_type, depth) ==
  _prep_dict_result(
    IF print_as_attribute THEN NameChars(original_type) ELSE <<"d","i","c","t">>,
    _prep_dict_loop(hp, cfg, obj, parent, parents_ids, print_as_attribute, depth, 1,
                    R(<<>>, 1, st)))

\* _prep_obj, after the attribute mapping hashed as d.
_prep_obj_result(is_namedtuple, d) ==
  R((IF is_namedtuple THEN <<"n","t">> ELSE <<"o","b","j">>) \o d.result, d.counts, d.st)

_prep_obj(hp, cfg, st, obj, parent, parents_ids, is_namedtuple, depth) ==
  IF obj_to_dict(hp, obj, is_namedtuple) = "AttributeError"
  THEN R(unprocessed, 0, [st EXCEPT !.hashes = append_unprocessed(@, obj)])
  ELSE _prep_obj_result(is_namedtuple,
         _prep_dict(hp, cfg, st, obj, parent, parents_ids, TRUE, TypeOf(hp, obj), depth))

\* _prep_iterable, the end of one pass of its loop: the item hashed as h is
\* counted.
_prep_iterable_count(acc, h) ==
  R(Increment(acc.result, h.result), acc.counts + h.counts, h.st)

\* _prep_iterable, one pass of its loop, for the item at new_parent.
_prep_iterable_item(hp, cfg, acc, item, new_parent, parents_ids, depth) ==
  IF _skip_this(hp, cfg, item, new_parent) THEN acc
  ELSE IF in_parents_ids(parents_ids, get_id(item))
  THEN R(acc.result, acc.counts, Logged(acc.st, "cycle", item, parents_ids))
  ELSE _prep_iterable_count(acc,
         _hash(hp, cfg, Logged(acc.st, "descend", item, parents_ids), item, new_parent,
               parents_ids \cup {get_id(item)}, depth + 1))

\* _prep_iterable, its loop from item i on (Python's index i - 1).
RECURSIVE _prep_iterable_loop(_, _, _, _, _, _, _, _)
_prep_iterable_loop(hp, cfg, obj, parent, parents_ids, depth, i, acc) ==
  IF i > Len(hp[obj.num].items) \/ acc.st.error # "" THEN acc
  ELSE _prep_iterable_loop(hp, cfg, obj, parent, parents_ids, depth, i + 1,
         _prep_iterable_item(hp, cfg, acc, hp[obj.num].items[i],
                             parent \o <<"[">> \o IntStr(i - 1) \o <<"]">>,
                             parents_ids, depth))

\* The fragments of a sequence whose loop counted result.
result_fragments(cfg, result) ==
  IF cfg.ignore_repetition
  THEN [ j \in 1..Len(result) |-> ResultStr(result[j][1]) ]
  ELSE [ j \in 1..Len(result) |-> ResultStr(result[j][1]) \o <<"|">> \o IntStr(result[j][2]) ]

\* _prep_iterable, after its loop ended as l.
_prep_iterable_result(cfg, type_name, l) ==
  R(KEY_TO_VAL_STR(type_name,
       Join(<<",">>, IF cfg.ignore_list_order THEN Sorted(result_fragments(cfg, l.result))
                     ELSE result_fragments(cfg, l.result))),
    l.counts, l.st)

_prep_iterable(hp, cfg, st, obj, parent, parents_ids, depth) ==
  _prep_iterable_result(cfg, NameChars(TypeOf(hp, obj)),
    _prep_iterable_loop(hp, cfg, obj, parent, parents_ids, depth, 1, R(<<>>, 1, st)))

_prep_tuple(hp, cfg, st, obj, parent, parents_ids, depth) ==
  IF hp[obj.num].type = "namedtuple"
  THEN _prep_obj(hp, cfg, st, obj, parent, parents_ids, TRUE, depth)
  ELSE _prep_iterable(hp, cfg, st, obj, parent, parents_ids, depth)

\* _hash, the end: the canonical string of obj is digested when apply_hash
\* is set.
digest(cfg, obj, result) ==
  IF result = unprocessed THEN unprocessed
  ELSE IF ~cfg.apply_hash THEN result
  ELSE IF obj.kind \in strings THEN sha256hex(result)
  ELSE sha256hex(prepare_string_for_hashing(result, "str",
                    cfg.ignore_string_type_changes, cfg.ignore_string_case))

\* _hash, the end: the entry of obj, whose handler returned h, is written
\* under obj when it is hashable and under its identity otherwise.
_hash_store(hp, cfg, obj, h) ==
  IF h.st.error # "" THEN R(NoneResult, 0, h.st)
  ELSE R(digest(cfg, obj, h.result), h.counts,
         [h.st EXCEPT !.hashes =
            SetItem(@, IF Hashable(hp, obj) THEN ValueKey(hp, obj) ELSE get_id(obj),
                    <<digest(cfg, obj, h.result), h.counts>>)])

\* _hash, the dispatch on the type of obj.
_hash_dispatch(hp, cfg, st, obj, type, parent, parents_ids, depth) ==
  CASE type = "NoneType" -> R(<<"N","O","N","E">>, 1, st)
    [] type \in strings ->
         R(prepare_string_for_hashing(obj.str, type,
              cfg.ignore_string_type_changes, cfg.ignore_string_case), 1, st)
    [] type \in numbers -> R(_prep_number(cfg, obj), 1, st)
    [] type = "dict" -> _prep_dict(hp, cfg, st, obj, parent, parents_ids, FALSE, "", depth)
    [] type \in {"tuple", "namedtuple"} ->
         _prep_tuple(hp, cfg, st, obj, parent, parents_ids, depth)
    [] type = "list" -> _prep_iterable(hp, cfg, st, obj, parent, parents_ids, depth)
    [] type = "BoolObj" ->
         R(IF obj = BoolObj.TRUE_ THEN <<"b","o","o","l",":","t","r","u","e">>
           ELSE <<"b","o","o","l",":","f","a","l","s","e">>, 1, st)
    [] OTHER -> _prep_obj(hp, cfg, st, obj, parent, parents_ids, FALSE, depth)

\* _hash, from the registry lookup on, for obj with a bool already replaced
\* by its BoolObj.
_hash_prepped(hp, cfg, st, obj, parent, parents_ids, depth) ==
  IF Hashable(hp, obj) /\ ValueKey(hp, obj) \in DOMAIN st.hashes
  THEN R(st.hashes[ValueKey(hp, obj)][1], st.hashes[ValueKey(hp, obj)][2],
         Logged(st, "hit", obj, parents_ids))
  ELSE IF _skip_this(hp, cfg, obj, parent)
  THEN R(NoneResult, 0, st)
  ELSE _hash_store(hp, cfg, obj,
         _hash_dispatch(hp, cfg, Logged(st, "compute", obj, parents_ids), obj,
                        TypeOf(hp, obj), parent, parents_ids, depth))

\* _hash(obj_, parent, parents_ids) at recursion depth depth; a chain of
\* more than RecursionLimit calls raises RecursionError.
_hash(hp, cfg, st, obj_, parent, parents_ids, depth) ==
  IF st.error # "" THEN R(NoneResult, 0, st)
  ELSE IF depth > RecursionLimit
  THEN R(NoneResult, 0, [st EXCEPT !.error = "RecursionError"])
  ELSE _hash_prepped(hp, cfg, st, IF obj_.kind = "bool" THEN _prep_bool(obj_) ELSE obj_,
                     parent, parents_ids, depth)

(***************************************************************************)
(* Construction and queries                                                *)
(***************************************************************************)

Root == <<"r","o","o","t">>

\* The end of DeepHash.__init__, after the traversal returned h: the
\* unprocessed list is dropped when it is empty.
HashRootEnd(h) ==
  [ hashes |-> IF h.st.error # "" \/ h.st.hashes[UNPROCESSED_KEY] # <<>>
               THEN h.st.hashes
               ELSE DelItem(h.st.hashes, UNPROCESSED_KEY),
    error |-> h.st.error,
    log |-> h.st.log ]

\* The body of DeepHash.__init__ once its options are accepted: the
\* traversal of obj on the registry object given, and the registry and
\* exception it ends with.
HashRoot(hp, given, obj, cfg) ==
  HashRootEnd(_hash(hp, cfg,
                    [hashes |-> SetItem(given, UNPROCESSED_KEY, <<>>), log |-> <<>>, error |-> ""],
                    obj, Root, {get_id(obj)}, 1))

\* A constructor that resets the unprocessed list of the registry it is
\* given before it rejects unknown options.
DeepHash_validating_late(hp, given, obj, cfg, kwargs) ==
  IF kwargs # {}
  THEN [hashes |-> SetItem(given, UNPROCESSED_KEY, <<>>), error |-> "ValueError", log |-> <<>>]
  ELSE HashRoot(hp, given, obj, cfg)

\* DeepHash.__init__(obj, hashes=given, **cfg, **kwargs), on the registry
\* object given (the empty dict when hashes is not given).
DeepHash(hp, given, obj, cfg, kwargs) ==
  IF kwargs # {} THEN [hashes |-> given, error |-> "ValueError", log |-> <<>>]
  ELSE HashRoot(hp, given, obj, cfg)

\* A lookup that does not fall back to the identity key.
_getitem_by_value_only(hp, hashes, obj, extract_index) ==
  LET key == IF obj = BoolV(TRUE) THEN BoolObj.TRUE_
             ELSE IF obj = BoolV(FALSE) THEN BoolObj.FALSE_
             ELSE obj
      byValue == Hashable(hp, key) /\ ValueKey(hp, key) \in DOMAIN hashes
  IN  IF ~byValue THEN [error |-> "KeyError", value |-> <<>>]
      ELSE [error |-> "",
            value |-> IF extract_index = -1 THEN hashes[ValueKey(hp, key)]
                      ELSE hashes[ValueKey(hp, key)][extract_index + 1]]

\* DeepHash._getitem(hashes, obj, extract_index) for a value obj:
\* [error, value], where the extract_index None is -1.
_getitem(hp, hashes, obj, extract_index) ==
  LET key == IF obj = BoolV(TRUE) THEN BoolObj.TRUE_
             ELSE IF obj = BoolV(FALSE) THEN BoolObj.FALSE_
             ELSE obj
      byValue == Hashable(hp, key) /\ ValueKey(hp, key) \in DOMAIN hashes
      found == byValue \/ get_id(obj) \in DOMAIN hashes
      result_n_count == IF byValue THEN hashes[ValueKey(hp, key)] ELSE hashes[get_id(obj)]
  IN  IF ~found THEN [error |-> "KeyError", value |-> <<>>]
      ELSE [error |-> "",
            value |-> IF extract_index = -1 THEN result_n_count
                      ELSE result_n_count[extract_index + 1]]

\* DeepHash.get_key(hashes, key, default, extract_index)
get_key(hp, hashes, key, default, extract_index) ==
  LET r == _getitem(hp, hashes, key, extract_index)
  IN  IF r.error = "KeyError" THEN [error |-> "", value |-> default] ELSE r

\* DeepHash.__contains__(obj)
__contains__(hp, hashes, obj) ==
  LET result == Hashable(hp, obj) /\ ValueKey(hp, obj) \in DOMAIN hashes
  IN  IF ~result THEN get_id(obj) \in DOMAIN hashes ELSE result

(***************************************************************************)
(* The state machine: a program that builds engines over the values it     *)
(* holds and queries the latest one.                                       *)
(***************************************************************************)

VARIABLES
  heap,     \* the Python objects the program holds: cell number -> cell
  config,   \* the options the program constructs its engines with
  hashes,   \* the registry dict of the latest engine (empty before any)
  seed,     \* that dict as it was when the last constructor call received it
  root,     \* the value the last constructor call was given
  status,   \* how the last constructor call ended: "", "ok" or the exception
  log,      \* the traversal history of the last constructor call
  ret       \* the last query and what it returned

vars == <<heap, config, hashes, seed, root, status, log, ret>>

EmptyDict == <<>>

NoQuery == [op |-> "", obj |-> NoneV, extract_index |-> 0, error |-> "", value |-> <<>>]

\* The values the program passes to the constructor: its objects.
Operands == { Ref(i) : i \in DOMAIN heap }

\* The values it passes to the queries.
QueryOperands == Operands \cup { IntV(1), FloatV(1), BoolV(TRUE) }

\* A constructor call on the registry object given, which ended as r.
Constructed(given, r, obj) ==
  /\ seed' = given
  /\ hashes' = r.hashes
  /\ root' = obj
  /\ status' = IF r.error = "" THEN "ok" ELSE r.error
  /\ log' = r.log
  /\ ret' = NoQuery
  /\ UNCHANGED <<heap, config>>

\* engine = DeepHash(obj, **config)
Construct(obj) == Constructed(EmptyDict, DeepHash(heap, EmptyDict, obj, config, {}), obj)

\* engine = DeepHash(obj, hashes=engine, **config)
ConstructSeeded(obj) ==
  /\ status = "ok"
  /\ Constructed(hashes, DeepHash(heap, hashes, obj, config, {}), obj)

\* DeepHash(obj, hashes=registry, **config, **kwargs) with unknown options
ConstructInvalid(obj, kwargs) ==
  /\ kwargs # {}
  /\ Constructed(hashes, DeepHash(heap, hashes, obj, config, kwargs), obj)

Query(op, obj, extract_index, r) ==
  /\ status = "ok"
  /\ ret' = [op |-> op, obj |-> obj, extract_index |-> extract_index,
             error |-> r.error, value |-> r.value]
  /\ UNCHANGED <<heap, config, hashes, seed, root, status, log>>

\* engine[obj], engine.__getitem__(obj, extract_index)
GetItem(obj, extract_index) ==
  Query("getitem", obj, extract_index, _getitem(heap, hashes, obj, extract_index))

Default == <<"default">>

\* engine.get(obj, default, extract_index)
Get(obj, extract_index) ==
  Query("get", obj, extract_index, get_key(heap, hashes, obj, Default, extract_index))

\* obj in engine
Contains(obj) ==
  Query("contains", obj, 0, [error |-> "", value |-> __contains__(heap, hashes, obj)])

UnknownOptions == {"ignore_order"}

Next ==
  \/ \E obj \in Operands : Construct(obj)
  \/ \E obj \in Operands : ConstructSeeded(obj)
  \/ \E obj \in Operands, kw \in UnknownOptions : ConstructInvalid(obj, {kw})
  \/ \E obj \in QueryOperands, extract_index \in {-1, 0, 1} : GetItem(obj, extract_index)
  \/ \E obj \in QueryOperands, extract_index \in {-1, 0, 1} : Get(obj, extract_index)
  \/ \E obj \in QueryOperands : Contains(obj)

\* The program only hashes.
NextHash == \E obj \in Operands : Construct(obj)

InitEngine ==
  /\ hashes = EmptyDict
  /\ seed = EmptyDict
  /\ root = NoneV
  /\ status = ""
  /\ log = <<>>
  /\ ret = NoQuery

(***************************************************************************)
(* The heaps and configurations explored                                   *)
(***************************************************************************)

\* The longest list, tuple or dict of the heaps explored.
MaxLen == 3

\* The sequences over S of length at most n.
SeqsUpTo(n, S) == UNION { [1..m -> S] : m \in 0..n }

List(items) == Cell("list", <<>>, items)
Tuple(items) == Cell("tuple", <<>>, items)
Dict(keys, items) == Cell("dict", keys, items)
Opaque == Cell("Opaque", <<>>, <<>>)

\* The longest outer list of the two-object heaps.
MaxOuter == 2

\* A program holding two objects: an inner one, and an outer list of up to
\* MaxOuter items that may alias the inner object and itself.
InnerCells ==
  { List(<<IntV(1)>>), List(<<FloatV(1), Ref(2)>>), Tuple(<<IntV(1), IntV(2)>>),
    Dict(<<StrV(<<"a">>), StrV(<<"b">>)>>, <<IntV(1), Ref(1)>>), Opaque }

\* An instance whose attribute is a dict that has the instance as a key.
KeyCycleHeap ==
  << Cell("Obj", <<StrV(<<"a">>)>>, <<Ref(2)>>), Dict(<<Ref(1)>>, <<IntV(2)>>) >>

Heaps ==
  { <<c1, List(items)>> :
       c1 \in InnerCells,
       items \in SeqsUpTo(MaxOuter, {FloatV(1), Ref(1), Ref(2)}) }
  \cup { KeyCycleHeap }

Init ==
  /\ heap \in Heaps
  /\ config \in { DefaultConfig }
  /\ InitEngine

Spec == Init /\ [][Next]_vars

(***************************************************************************)
(* Properties                                                              *)
(***************************************************************************)

Range(f) == { f[x] : x \in DOMAIN f }

\* The key under which _hash registers a value: the value itself when it
\* is hashable (a bool as its BoolObj), its identity otherwise.
RegistryKey(hp, v) ==
  LET obj == IF v.kind = "bool" THEN _prep_bool(v) ELSE v
  IN  IF Hashable(hp, obj) THEN ValueKey(hp, obj) ELSE get_id(obj)

Registered(v) == RegistryKey(heap, v) \in DOMAIN hashes

StoredEntry(v) == hashes[RegistryKey(heap, v)]

\* A stored hash that is a digest or canonical string, not a sentinel.
IsHash(r) == r \notin {unprocessed, not_hashed, NoneResult}

IsContainer(hp, v) == v.kind = "ref" /\ hp[v.num].type \in {"list", "tuple", "dict"}

\* The entry a run on obj alone, with an empty registry, stores for it.
AloneEntry(hp, cfg, obj) == DeepHash(hp, EmptyDict, obj, cfg, {}).hashes[RegistryKey(hp, obj)]

\* The events of the last run's history.
Events(kinds) == { i \in DOMAIN log : log[i].ev \in kinds }

\* The heap with its cells renumbered by the permutation p: the same
\* objects built independently, under other identities.
Renumbered(hp, p) ==
  LET ren(v) == IF v.kind = "ref" THEN Ref(p[v.num]) ELSE v
      cell(c) == [type |-> c.type,
                  keys |-> [i \in DOMAIN c.keys |-> ren(c.keys[i])],
                  items |-> [i \in DOMAIN c.items |-> ren(c.items[i])]]
  IN  [ j \in DOMAIN hp |-> cell(hp[CHOOSE i \in DOMAIN hp : p[i] = j]) ]

GracefulDegradation ==
  /\ status \in {"", "ok", "ValueError"}
  /\ status = "ok" =>
       /\ \A i \in Events({"compute"}) :
             LET obj == log[i].obj
             IN  /\ TypeOf(heap, obj) = "Opaque" =>
                       /\ UNPROCESSED_KEY \in DOMAIN hashes
                       /\ obj \in Range(hashes[UNPROCESSED_KEY])
                       /\ Registered(obj)
                       /\ StoredEntry(obj) = <<unprocessed, 0>>
                 /\ IsContainer(heap, obj) =>
                       /\ Registered(obj)
                       /\ IsHash(StoredEntry(obj)[1])
                       /\ \A x \in Range(heap[obj.num].items) \cup Range(heap[obj.num].keys) :
                             get_id(x) \in log[i].anc \/ Registered(x)
       /\ Registered(root)
       /\ TypeOf(heap, root) # "Opaque" => IsHash(StoredEntry(root)[1])
       /\ UNPROCESSED_KEY \in DOMAIN hashes => hashes[UNPROCESSED_KEY] # <<>>

\* A list holding an undecomposable object and another item has been
\* hashed: the object is in the unprocessed list, the list has a hash.
GracefulDegradationWitness ==
  /\ status = "ok"
  /\ IsContainer(heap, root)
  /\ UNPROCESSED_KEY \in DOMAIN hashes
  /\ \E x \in Range(heap[root.num].items) :
        /\ TypeOf(heap, x) = "Opaque"
        /\ x \in Range(hashes[UNPROCESSED_KEY])
  /\ \E y \in Range(heap[root.num].items) : TypeOf(heap, y) # "Opaque" /\ Registered(y)
  /\ IsHash(StoredEntry(root)[1])

\* What a lookup of ret.obj must give when the value is registered under
\* its value key or its identity key.
Extracted(entry, extract_index) ==
  IF extract_index = -1 THEN entry ELSE entry[extract_index + 1]

LookupAnswer ==
  ret.op \in {"getitem", "get"} =>
     IF Registered(ret.obj)
     THEN /\ ret.error = ""
          /\ ret.value = Extracted(StoredEntry(ret.obj), ret.extract_index)
          /\ ret.extract_index = 0 => ret.value # NoneResult
     ELSE IF ret.op = "getitem"
     THEN ret.error = "KeyError"
     ELSE ret.error = "" /\ ret.value = Default

\* C7 (lookup outcomes): a lookup of a registered value returns its stored
\* hash, count or both as asked; a lookup of a value registered neither
\* by value nor by identity raises KeyError, and get returns the default
\* then and only then; no query changes the registry.
LookupOutcomes == [] LookupAnswer /\ [][ret'.op # "" => hashes' = hashes]_vars

\* The engine was asked for the count of a list, which is registered by
\* identity only, and returned it.
LookupOutcomesWitness ==
  /\ ret.op = "getitem"
  /\ ret.extract_index = 1
  /\ ret.obj.kind = "ref"
  /\ ~Hashable(heap, ret.obj)
  /\ ret.error = ""
  /\ ret.value = StoredEntry(ret.obj)[2]

\* C8 (configuration error is fail-fast): a constructor call with an
\* unrecognized option ends in ValueError with no traversal step taken and
\* the registry it was given exactly as it was.
ConfigurationFailFast ==
  [][ \A obj \in Operands, kw \in UnknownOptions :
         ConstructInvalid(obj, {kw}) =>
            status' = "ValueError" /\ hashes' = hashes /\ log' = <<>> ]_vars

\* A constructor call given the registry of an earlier run and an unknown
\* option has failed.
ConfigurationFailFastWitness ==
  /\ status = "ValueError"
  /\ seed # EmptyDict
  /\ hashes = seed
  /\ log = <<>>

\* C9 (idempotent memoization): within one run no value is computed by a
\* handler more than once, whether it is registered under itself or under
\* its identity.
IdempotentMemoization ==
  \A i, j \in Events({"compute"}) : i < j => log[i].obj # log[j].obj

\* C10 (independence from registry history): every value visited by a run
\* has, in the registry, the hash that a run on that value alone with an
\* empty registry gives it.
RegistryIndependence ==
  status = "ok" =>
     \A i \in Events({"hit", "compute"}) :
        Registered(log[i].obj) =>
           StoredEntry(log[i].obj)[1] = AloneEntry(heap, config, log[i].obj)[1]

(***************************************************************************)
(* Mappings                                                                *)
(***************************************************************************)

\* The sequences over S without a repeated element, of length at most n.
DistinctSeqsUpTo(n, S) ==
  { q \in SeqsUpTo(n, S) : \A i, j \in DOMAIN q : i # j => q[i] # q[j] }

\* Keys no two of which are equal in Python, and values among which 1 and
\* 1.0 are.
MappingKeys == { StrV(<<"a">>), StrV(<<"b">>), IntV(2) }
MappingValues == { IntV(1), FloatV(1), StrV(<<"a">>), Ref(2) }

\* A program holding a dict of up to MaxLen entries and a list.
MappingHeaps ==
  UNION { { <<Dict(ks, is), List(<<FloatV(1)>>)>> : is \in [DOMAIN ks -> MappingValues] } :
          ks \in DistinctSeqsUpTo(MaxLen, MappingKeys) }

\* DeepHash(obj), DeepHash(obj, apply_hash=False) and
\* DeepHash(obj, ignore_numeric_type_changes=True, significant_digits=1)
MappingConfigs ==
  { DefaultConfig,
    [DefaultConfig EXCEPT !.apply_hash = FALSE],
    [DefaultConfig EXCEPT !.ignore_numeric_type_changes = TRUE, !.significant_digits = 1] }

InitMappings ==
  /\ heap \in MappingHeaps
  /\ config \in MappingConfigs
  /\ InitEngine

SpecMappings == InitMappings /\ [][NextHash]_vars

\* The heap in which the entries of dict n are inserted in the order p.
Reordered(hp, n, p) ==
  [hp EXCEPT ![n] = Cell(@.type, [i \in DOMAIN @.keys |-> @.keys[p[i]]],
                         [i \in DOMAIN @.items |-> @.items[p[i]]])]

\* The root of the last run, a fresh one, is a container of the given types.
FreshRunOn(types) ==
  /\ status = "ok"
  /\ seed = EmptyDict
  /\ root.kind = "ref"
  /\ heap[root.num].type \in types

\* C1 (key-order invariance): the root digest of a dict is the one a run
\* gives the dict with the same entries inserted in any other order.
KeyOrderInvariance ==
  FreshRunOn({"dict"}) =>
     \A p \in Permutations(DOMAIN heap[root.num].keys) :
        AloneEntry(Reordered(heap, root.num, p), config, root)[1] = StoredEntry(root)[1]

(***************************************************************************)
(* Sequences                                                               *)
(***************************************************************************)

SequenceItems == { IntV(1), FloatV(1), IntV(2) }

\* A program holding one list or tuple of up to MaxLen items.
SequenceHeaps ==
  { <<Cell(type, <<>>, items)>> :
       type \in {"list", "tuple"}, items \in SeqsUpTo(MaxLen, SequenceItems) }

\* DeepHash(obj, ignore_repetition=..., ignore_list_order=...)
SequenceConfigs ==
  { [DefaultConfig EXCEPT !.ignore_repetition = r, !.ignore_list_order = o] :
       r \in BOOLEAN, o \in BOOLEAN }

InitSequences ==
  /\ heap \in SequenceHeaps
  /\ config \in SequenceConfigs
  /\ InitEngine

SpecSequences == InitSequences /\ [][NextHash]_vars

\* The heap in which the items of sequence n are t.
WithItems(hp, n, t) == [hp EXCEPT ![n] = Cell(@.type, <<>>, t)]

\* The digest a run of its own gives the root when its items are t.
DigestWithItems(t) == AloneEntry(WithItems(heap, root.num, t), config, root)[1]

\* The distinct elements of l in first-seen order.
RECURSIVE FirstSeen(_)
FirstSeen(l) ==
  IF l = <<>> THEN <<>>
  ELSE LET rest == FirstSeen(SubSeq(l, 1, Len(l) - 1))
           x == l[Len(l)]
       IN  IF x \in Range(rest) THEN rest ELSE Append(rest, x)

\* The number of items of l whose stored hash is h.
CountOf(h, l) == Cardinality({ i \in DOMAIN l : StoredEntry(l[i])[1] = h })

\* C2 (order and repetition of sequences): with order and repetition
\* ignored, every sequence of the same type with the same set of elements
\* has the root's digest; with repetition counted, the sequence with one
\* more copy of one of its elements has another digest; with order kept,
\* the canonical string lists the distinct element hashes in first-seen
\* order.
SequenceOrderRepetition ==
  FreshRunOn({"list", "tuple"}) =>
     LET items == heap[root.num].items
         hs == FirstSeen([ i \in DOMAIN items |-> StoredEntry(items[i])[1] ])
         fragments == IF config.ignore_repetition THEN hs
                      ELSE [ j \in DOMAIN hs |->
                               hs[j] \o <<"|">> \o IntStr(CountOf(hs[j], items)) ]
     IN  /\ (config.ignore_list_order /\ config.ignore_repetition) =>
               \A t \in SeqsUpTo(MaxLen, SequenceItems) :
                  Range(t) = Range(items) => DigestWithItems(t) = StoredEntry(root)[1]
         /\ ~config.ignore_repetition =>
               \A x \in Range(items) :
                  DigestWithItems(Append(items, x)) # StoredEntry(root)[1]
         /\ ~config.ignore_list_order =>
               StoredEntry(root)[1] =
                  sha256hex(<<"s","t","r",":">> \o NameChars(heap[root.num].type)
                            \o <<":">> \o Join(<<",">>, fragments))

(***************************************************************************)
(* Kinds                                                                   *)
(***************************************************************************)

\* The longest list of scalars of the heaps explored.
MaxScalars == 2

\* None, True, 1, 1.0, "1", b"1" and the strings "NONE", "int:1" and
\* "bool:true".
Scalars ==
  { NoneV, BoolV(TRUE), IntV(1), FloatV(1), StrV(<<"1">>), BytesV(<<"1">>),
    StrV(<<"N","O","N","E">>), StrV(<<"i","n","t",":","1">>),
    StrV(<<"b","o","o","l",":","t","r","u","e">>) }

\* A program holding one list of up to MaxScalars scalars.
ScalarHeaps == { <<List(items)>> : items \in SeqsUpTo(MaxScalars, Scalars) }

\* DeepHash(obj, ignore_string_type_changes=..., ignore_numeric_type_changes=...),
\* with significant_digits=1 when numeric types are ignored.
KindConfigs ==
  { [DefaultConfig EXCEPT !.ignore_string_type_changes = s,
                          !.ignore_numeric_type_changes = n,
                          !.significant_digits = IF n THEN 1 ELSE -1] :
       s \in BOOLEAN, n \in BOOLEAN }

InitKinds ==
  /\ heap \in ScalarHeaps
  /\ config \in KindConfigs
  /\ InitEngine

SpecKinds == InitKinds /\ [][NextHash]_vars

\* The kind of a scalar: null, string, number or boolean.
Kind(v) ==
  CASE v.kind = "NoneType" -> "null"
    [] v.kind \in strings -> "string"
    [] v.kind \in numbers -> "number"
    [] v.kind = "bool" -> "boolean"

\* C4 (cross-type distinctness): two scalars of different kinds hashed by
\* one run do not have the same stored digest.
CrossTypeDistinctness ==
  FreshRunOn({"list"}) =>
     \A x, y \in Range(heap[root.num].items) :
        (Kind(x) # Kind(y) /\ Registered(x) /\ Registered(y)) =>
           StoredEntry(x)[1] # StoredEntry(y)[1]

(***************************************************************************)
(* Path exclusion                                                          *)
(***************************************************************************)

\* "root[k]", the path of the item at Python index k of the root.
RootItemPath(k) == Root \o <<"[">> \o IntStr(k) \o <<"]">>

\* A program holding a list of up to MaxLen items, which may be itself or a
\* nested list, and the nested list.
ExclusionHeaps ==
  { <<List(items), List(<<IntV(1), IntV(2)>>)>> :
       items \in SeqsUpTo(MaxLen, { IntV(1), FloatV(1), Ref(1), Ref(2) }) }

\* DeepHash(obj, exclude_paths="root[k]", include_paths=...,
\* exclude_regex_paths=...): one item's path excluded, alone or with
\* another path-dependent filter.
ExclusionConfigs ==
  { [DefaultConfig EXCEPT !.exclude_paths = {RootItemPath(k)},
                          !.include_paths = inc,
                          !.exclude_regex_paths = re] :
       k \in 0..(MaxLen - 1),
       inc \in { {}, {RootItemPath(2)} },
       re \in { {}, {<<"[", "1", "]">>} } }

InitExclusion ==
  /\ heap \in ExclusionHeaps
  /\ config \in ExclusionConfigs
  /\ InitEngine

SpecExclusion == InitExclusion /\ [][NextHash]_vars

\* del l[k] for a Python index k of l
DeleteAt(l, k) == SubSeq(l, 1, k) \o SubSeq(l, k + 2, Len(l))

\* The Python indices of the root's items whose path is excluded.
ExcludedIndices ==
  { k \in 0..(Len(heap[root.num].items) - 1) : RootItemPath(k) \in config.exclude_paths }

\* The digest a run without path exclusion gives the root once item k is
\* deleted from it.
DigestOfDeleted(k) ==
  AloneEntry(WithItems(heap, root.num, DeleteAt(heap[root.num].items, k)),
             [config EXCEPT !.exclude_paths = {}], root)[1]

\* C5 as stated (path exclusion transparency, every configuration): the
\* root digest of a sequence hashed with the path of item k excluded is the
\* digest of the sequence without item k.
PathExclusionTransparency ==
  (FreshRunOn({"list"}) /\ root = Ref(1)) =>
     \A k \in ExcludedIndices : StoredEntry(root)[1] = DigestOfDeleted(k)

\* No filter but exclude_paths looks at paths.
OnlyExcludePaths(cfg) ==
  /\ cfg.include_paths = {}
  /\ cfg.exclude_regex_paths = {}
  /\ cfg.exclude_obj_callback = "None"

\* C5 (path exclusion transparency, amended): when the excluded path of
\* item k is the only path-dependent filter configured, the root digest of
\* the sequence is the digest of the sequence without item k.
PathExclusionAlone ==
  (FreshRunOn({"list"}) /\ root = Ref(1) /\ OnlyExcludePaths(config)) =>
     \A k \in ExcludedIndices : StoredEntry(root)[1] = DigestOfDeleted(k)

\* A list of three items, hashed with the path of its middle item excluded
\* and no other filter, has the digest of the list of the two others.
PathExclusionAloneWitness ==
  /\ FreshRunOn({"list"})
  /\ root = Ref(1)
  /\ OnlyExcludePaths(config)
  /\ Len(heap[1].items) = 3
  /\ ExcludedIndices = {1}
  /\ heap[1].items[1] # heap[1].items[2]
  /\ Events({"compute"}) # {}
  /\ StoredEntry(root)[1] = DigestOfDeleted(1)

(***************************************************************************)
(* The Filter                                                              *)
(***************************************************************************)

\* self._skip_this(obj, parent), as the handlers call it
SkipThis(obj, parent) ==
  /\ ret' = [op |-> "_skip_this", obj |-> obj, extract_index |-> 0, error |-> "",
             parent |-> parent,
             value |-> [skip |-> _skip_this(heap, config, obj, parent),
                        evaluates |-> _skip_this_evaluates(heap, config, obj, parent)]]
  /\ UNCHANGED <<heap, config, hashes, seed, root, status, log>>

\* "root[0][0]"
NestedItemPath == RootItemPath(0) \o <<"[", "0", "]">>

FilterPaths == { Root, RootItemPath(0), RootItemPath(1), NestedItemPath }
FilterValues == { IntV(1), NoneV, Ref(2) }

\* A program holding a list of a scalar and a nested list, in either order.
FilterHeaps ==
  UNION { { <<List(<<a, Ref(2)>>), List(<<IntV(1), IntV(2)>>)>>,
            <<List(<<Ref(2), a>>), List(<<IntV(1), IntV(2)>>)>> } : a \in {IntV(1), NoneV} }

\* DeepHash(obj, exclude_paths=..., include_paths=..., exclude_regex_paths=...,
\* exclude_types=..., exclude_obj_callback=...)
FilterConfigs ==
  { [DefaultConfig EXCEPT !.exclude_paths = ex, !.include_paths = inc,
                          !.exclude_regex_paths = re, !.exclude_types = ty,
                          !.exclude_obj_callback = cb] :
       ex \in { {}, {RootItemPath(0)}, {NestedItemPath} },
       inc \in { {}, {RootItemPath(0)}, {RootItemPath(1)} },
       re \in { {}, {<<"[", "0", "]">>} },
       ty \in { {}, {"int"} },
       cb \in { "None", "is_none" } }

InitFilter ==
  /\ heap \in FilterHeaps
  /\ config \in FilterConfigs
  /\ InitEngine

NextFilter ==
  \/ \E obj \in Operands : Construct(obj)
  \/ \E obj \in FilterValues, parent \in FilterPaths : SkipThis(obj, parent)

SpecFilter == InitFilter /\ [][NextFilter]_vars

\* The heap in which item i of sequence n is v.
Replaced(hp, n, i, v) == [hp EXCEPT ![n].items[i] = v]

\* The items of the last run whose path is in exclude_paths, as <<cell,
\* index>>: items of the root, and items of its first item.
ExcludedItems ==
  { <<root.num, k + 1>> : k \in ExcludedIndices }
  \cup { <<heap[root.num].items[1].num, 1>> :
           x \in { y \in {heap[root.num].items[1]} :
                     y.kind = "ref" /\ NestedItemPath \in config.exclude_paths } }

\* C11 (exclude-path precedence): the Filter excludes every value whose
\* path is an entry of exclude_paths, whatever the other filter options;
\* and an item of the hashed list at such a path contributes nothing: the
\* list has the same digest with any other value in its place.
ExcludePathPrecedence ==
  /\ (ret.op = "_skip_this" /\ ret.parent \in config.exclude_paths) => ret.value.skip
  /\ (FreshRunOn({"list"}) /\ root = Ref(1)) =>
        \A e \in ExcludedItems, v \in FilterValues :
           AloneEntry(Replaced(heap, e[1], e[2], v), config, root)[1] = StoredEntry(root)[1]

\* The path is an entry of include_paths or has one as prefix.
IncludeKeeps(cfg, parent) ==
  \E prefix \in cfg.include_paths : parent = prefix \/ StartsWith(parent, prefix)

\* One of the rules after the path rules excludes obj at parent.
OtherRulesExclude(hp, cfg, obj, parent) ==
  \/ \E r \in cfg.exclude_regex_paths : Search(r, parent)
  \/ \E T \in cfg.exclude_types : IsInstance(hp, obj, T)
  \/ exclude_obj_callback(cfg.exclude_obj_callback, hp, obj, parent)

\* The Filter was called with include_paths configured.
FilteredWithIncludePaths == ret.op = "_skip_this" /\ config.include_paths # {}

\* C12 as stated (include-path exclusivity): with include_paths configured,
\* a value not at the root is kept iff its path is an include entry or has
\* one as prefix, and no regex, type or callback rule is evaluated for it;
\* at the root those rules decide.
IncludePathExclusivity ==
  FilteredWithIncludePaths =>
     IF ret.parent # Root
     THEN /\ ~ret.value.skip <=> IncludeKeeps(config, ret.parent)
          /\ ret.value.evaluates = {}
     ELSE ret.value.skip <=>
             (ret.parent \in config.exclude_paths
              \/ OtherRulesExclude(heap, config, ret.obj, ret.parent))

\* C12 (include-path exclusivity, amended): with include_paths configured,
\* no regex, type or callback rule is evaluated for a value not at the
\* root, and such a value whose path is not an entry of exclude_paths is
\* kept iff its path is an include entry or has one as prefix; at the root
\* those rules decide.
IncludePathExclusivityUnexcluded ==
  FilteredWithIncludePaths =>
     IF ret.parent # Root
     THEN /\ ret.parent \notin config.exclude_paths =>
                (~ret.value.skip <=> IncludeKeeps(config, ret.parent))
          /\ ret.value.evaluates = {}
     ELSE ret.value.skip <=>
             (ret.parent \in config.exclude_paths
              \/ OtherRulesExclude(heap, config, ret.obj, ret.parent))

\* The Filter kept None at the include path root[0] although the regex
\* matches the path, int-typed values are excluded and the callback would
\* exclude None.
IncludePathExclusivityUnexcludedWitness ==
  /\ FilteredWithIncludePaths
  /\ ret.parent = RootItemPath(0)
  /\ ret.parent \in config.include_paths
  /\ ret.parent \notin config.exclude_paths
  /\ ret.obj = NoneV
  /\ OtherRulesExclude(heap, config, ret.obj, ret.parent)
  /\ config.exclude_obj_callback = "is_none"
  /\ ~ret.value.skip
  /\ ret.value.evaluates = {}

(***************************************************************************)
(* Item counts                                                             *)
(***************************************************************************)

\* "root['a']"
RootKeyPath(key) == key_in_report(Root, key, FALSE)

CountKeys == { StrV(<<"a">>), StrV(<<"b">>), StrV(<<"_", "_", "p">>) }
CountItems == { IntV(1), IntV(2), Ref(1) }

\* A program holding one dict or list of up to MaxLen children, which may
\* be the container itself; a dict may have the private key "__p".
CountHeaps ==
  UNION { { <<Dict(ks, is)>> : is \in [DOMAIN ks -> CountItems] } :
          ks \in DistinctSeqsUpTo(MaxLen, CountKeys) }
  \cup { <<List(items)>> : items \in SeqsUpTo(MaxLen, CountItems) }

\* DeepHash(obj) and DeepHash(obj, exclude_paths=<the path of one child>)
CountConfigs ==
  { [DefaultConfig EXCEPT !.exclude_paths = ex] :
       ex \in { {}, {RootKeyPath(StrV(<<"a">>))}, {RootItemPath(0)}, {RootItemPath(1)} } }

InitCounts ==
  /\ heap \in CountHeaps
  /\ config \in CountConfigs
  /\ InitEngine

SpecCounts == InitCounts /\ [][NextHash]_vars

\* The path of child i of the root.
ChildPath(i) ==
  IF heap[root.num].type = "dict" THEN RootKeyPath(heap[root.num].keys[i])
  ELSE RootItemPath(i - 1)

\* The children of the root that are folded into its hash: those neither
\* at an excluded path, nor under a private key, nor the root itself.
FoldedChildren ==
  { i \in DOMAIN heap[root.num].items :
       /\ ChildPath(i) \notin config.exclude_paths
       /\ ~(heap[root.num].type = "dict" /\ config.ignore_private_variables
            /\ StartsWith(heap[root.num].keys[i].str, <<"_", "_">>))
       /\ heap[root.num].items[i] # root }

\* The items of l at the indices in S, in order.
RECURSIVE PickFrom(_, _, _)
PickFrom(l, S, i) ==
  IF i > Len(l) THEN <<>>
  ELSE (IF i \in S THEN <<l[i]>> ELSE <<>>) \o PickFrom(l, S, i + 1)

\* The heap in which the root has its folded children only.
FoldedOnly ==
  [heap EXCEPT ![root.num] = Cell(@.type, PickFrom(@.keys, FoldedChildren, 1),
                                  PickFrom(@.items, FoldedChildren, 1))]

\* C13 (item count counts only what was folded in): the count stored for
\* the root is the count of the container without the children that were
\* skipped (by an excluded path, the private-key rule or the cycle check),
\* hashed without exclusion; and a list of n unfiltered scalars has count
\* n + 1.
ItemCountFoldedOnly ==
  FreshRunOn({"dict", "list"}) =>
     /\ StoredEntry(root)[2] =
           AloneEntry(FoldedOnly, [config EXCEPT !.exclude_paths = {}], root)[2]
     /\ (heap[root.num].type = "list" /\ FoldedChildren = DOMAIN heap[root.num].items) =>
           StoredEntry(root)[2] = Len(heap[root.num].items) + 1

(***************************************************************************)
(* Containment                                                             *)
(***************************************************************************)

\* A program that hashes a list of scalars with the default options and
\* asks the engine which scalars and objects it contains.
InitContains ==
  /\ heap \in ScalarHeaps
  /\ config \in { DefaultConfig }
  /\ InitEngine

NextContains ==
  \/ \E obj \in Operands : Construct(obj)
  \/ \E obj \in Scalars \cup Operands : Contains(obj)

SpecContains == InitContains /\ [][NextContains]_vars

\* C14 (containment agrees with lookup): obj in engine is true exactly
\* when engine[obj] does not raise KeyError.
ContainmentAgreesWithLookup ==
  ret.op = "contains" =>
     (ret.value <=> _getitem(heap, hashes, ret.obj, 0).error = "")

=============================================================================
